---- MODULE Spec2Model ----
(***************************************************************************)
(* A model of skil/services.py: the Service lifecycle (start / stop        *)
(* against the remote model server), array marshaling in predict /         *)
(* predict_single, the temporary file of detect_objects, and the Pipeline  *)
(* that chains a transform service and a model service.                    *)
(*                                                                         *)
(* The client is single-threaded: at most one call is in progress.  The    *)
(* remote server is the environment: it answers each request with one of   *)
(* the outcomes it can produce, or the request fails and the client        *)
(* library raises.                                                         *)
(***************************************************************************)
EXTENDS Integers, Sequences, FiniteSets, TLC

\* ---------------------------------------------------------------- bounds

\* The poll counter of a start() call saturates here (the loop itself has
\* no bound and the model never stops it).
MaxPolls == 3

\* Largest extent of a dimension of an input array.
MaxDim == 2

\* Most output descriptors in one multipredict response.
MaxOutputs == 2

\* ------------------------------------------------------------ vocabulary

None == "None"

\* The two services a deployment holds (a model and a transform).
Services == {"model", "transform"}

\* States the server reports for a deployed model ("started" is the one
\* start() waits for).
RemoteStates == {"stopped", "starting", "started"}

\* Messages of Service.start.
MsgNoModel  == "No model deployed yet, call 'deploy()' on a model first."
MsgStarting == ">>> Starting to serve model..."
MsgStarted  == ">>> Model server started successfully!"
MsgWaiting  == ">>> Waiting for deployment..."

VARIABLES
    \* ---- Service objects and the server behind them
    model_deployment,  \* [Services -> {None, "md"}]: Service.model_deployment
    remote,            \* [Services -> RemoteStates]: the server's state
    \* ---- the lifecycle call in progress (Service.start / Service.stop)
    op,                \* "none", "start", "stop"
    svc,               \* the Service the call is on, or None
    pc,                \* "idle", "sleep5", "check", "done"
    model_state,       \* start()'s local: the state the last poll reported
    lastResp,          \* state in the most recent response received
    startReqs,         \* "start" requests issued by this call (saturating)
    stopReqs,          \* "stop" requests issued by this call
    polls,             \* requests issued inside the loop (saturating)
    printed,           \* last message given to printer.pprint, or None
    outcome,           \* "none", "returned", "raised"
    remote0,           \* the server's state when the call began
    \* ---- the predict / predict_single call in progress
    pOp,               \* "none", "predict", "predict_single"
    pPc,               \* "idle", "sent", "done"
    pData,             \* the argument: an array, or a list of arrays
    pInputs,           \* MultiPredictRequest.inputs as sent
    pOutputs,          \* classification_response.outputs as received
    pResult,           \* what the call returned (kind "array" or "list")
    pOutcome,          \* "none", "returned", or the error raised
    \* ---- the module's cv2, the local disk, the detect_objects call
    cv2,               \* None when "import cv2" failed, else "cv2"
    files,             \* [Paths -> {None} \cup Images]: what each path holds
    dPc,               \* "idle", "post", "cleanup", "done"
    dPath,             \* the call's temp_path
    dForm,             \* the form fields of the upload
    dPosted,           \* the file content uploaded, or None
    dPosts,            \* upload requests issued by this call
    dResp,             \* the response body: "json", "notjson", or None
    dOutcome,          \* "none", "returned", or the error raised
    files0,            \* the disk when the call began
    \* ---- the Pipeline object and the call in progress on it
    pipe,              \* built, model_service, transform_service
    qOp,               \* "none", "init", "predict", "predict_single",
                       \* "detect_objects"
    qPc,               \* "idle", "model", "done"
    qData,             \* the call's argument (for init: transform)
    qCalls,            \* the calls made on the two stages, in order
    qOutcome,          \* "none", "returned", or the error raised
    qResult,           \* the value returned, or None
    \* ---- the Pipeline.start / Pipeline.stop call in progress
    kOp,               \* "none", "start", "stop"
    kPc,               \* "idle", "first", "between", "second", "done"
    kEnded,            \* [Services -> how the service's call ended]
    kOutcome,          \* "none", "returned", "raised"
    kRemote0           \* the server's state when the call began

lifeVars == <<model_deployment, remote, op, svc, pc, model_state, lastResp,
              startReqs, stopReqs, polls, printed, outcome, remote0>>

predVars == <<pOp, pPc, pData, pInputs, pOutputs, pResult, pOutcome>>

detVars == <<cv2, files, dPc, dPath, dForm, dPosted, dPosts, dResp,
             dOutcome, files0>>

pipeVars == <<pipe, qOp, qPc, qData, qCalls, qOutcome, qResult>>

pipeLifeVars == <<kOp, kPc, kEnded, kOutcome, kRemote0>>

vars == <<lifeVars, predVars, detVars, pipeVars, pipeLifeVars>>

Min(a, b) == IF a < b THEN a ELSE b

\* ------------------------------------------------------------ the server

\* What the server may move a model to when asked to change its state.
ServerNext(cur, target) ==
    IF target = "start"
    THEN IF cur = "started" THEN {"started"} ELSE {"starting", "started"}
    ELSE {"stopped"}

\* skil.api.model_state_change(deployment.id, model_deployment.id, SetState(t))
\* answered by the server: the server moves and the response carries the
\* state it moved to.
StateChangeAnswered(s, target, r) ==
    /\ r \in ServerNext(remote[s], target)
    /\ remote' = [remote EXCEPT ![s] = r]
    /\ lastResp' = r

\* The same request failing in the client library (network / API error):
\* the error propagates out of the calling method.  The server may or may
\* not have acted on it.
StateChangeRaises(s, target) ==
    /\ \E r \in ServerNext(remote[s], target) \cup {remote[s]} :
           remote' = [remote EXCEPT ![s] = r]
    /\ pc' = "done"
    /\ outcome' = "raised"

\* ------------------------------------------------------- Service.start

\* A start without the guard on model_deployment.
ServiceStartUnguarded(s) ==
    /\ pc = "idle"
    /\ op' = "start"
    /\ svc' = s
    /\ remote0' = remote
    /\ startReqs' = 1
    /\ \/ /\ \E r \in RemoteStates : StateChangeAnswered(s, "start", r)
          /\ printed' = MsgStarting
          /\ pc' = "sleep5"
          /\ UNCHANGED outcome
       \/ /\ StateChangeRaises(s, "start")
          /\ UNCHANGED <<lastResp, printed>>
    /\ UNCHANGED <<model_deployment, model_state, stopReqs, polls>>

\* The call begins: the guard, then the first "start" request.
ServiceStart(s) ==
    /\ pc = "idle"
    /\ op' = "start"
    /\ svc' = s
    /\ remote0' = remote
    /\ IF model_deployment[s] = None
       THEN /\ printed' = MsgNoModel
            /\ pc' = "done"
            /\ outcome' = "returned"
            /\ UNCHANGED <<remote, lastResp, startReqs>>
       ELSE /\ startReqs' = 1
            /\ \/ /\ \E r \in RemoteStates : StateChangeAnswered(s, "start", r)
                  /\ printed' = MsgStarting
                  /\ pc' = "sleep5"
                  /\ UNCHANGED outcome
               \/ /\ StateChangeRaises(s, "start")
                  /\ UNCHANGED <<lastResp, printed>>
    /\ UNCHANGED <<model_deployment, model_state, stopReqs, polls>>

\* One iteration's request: time.sleep(5), then the "start" request again,
\* whose response's state is kept in model_state.
ServiceStartPoll(s) ==
    /\ pc = "sleep5" /\ op = "start" /\ svc = s
    /\ startReqs' = Min(startReqs + 1, MaxPolls + 1)
    /\ polls' = Min(polls + 1, MaxPolls)
    /\ \/ /\ \E r \in RemoteStates :
                /\ StateChangeAnswered(s, "start", r)
                /\ model_state' = r
          /\ pc' = "check"
          /\ UNCHANGED outcome
       \/ /\ StateChangeRaises(s, "start")
          /\ UNCHANGED <<lastResp, model_state>>
    /\ UNCHANGED <<model_deployment, op, svc, stopReqs, printed, remote0>>

\* A loop with a retry limit: gives up after two polls.
ServiceStartCheckLimited(s) ==
    /\ pc = "check" /\ op = "start" /\ svc = s
    /\ IF model_state = "started"
       THEN /\ printed' = MsgStarted
            /\ pc' = "done"
            /\ outcome' = "returned"
       ELSE IF polls >= 2
            THEN /\ printed' = MsgWaiting
                 /\ pc' = "done"
                 /\ outcome' = "raised"
            ELSE /\ printed' = MsgWaiting
                 /\ pc' = "sleep5"
                 /\ UNCHANGED outcome
    /\ UNCHANGED <<model_deployment, remote, op, svc, model_state, lastResp,
                   startReqs, stopReqs, polls, remote0>>

\* A loop that leaves as soon as the server has accepted the request.
ServiceStartCheckEager(s) ==
    /\ pc = "check" /\ op = "start" /\ svc = s
    /\ IF model_state \in {"started", "starting"}
       THEN /\ printed' = MsgStarted
            /\ pc' = "done"
            /\ outcome' = "returned"
       ELSE /\ printed' = MsgWaiting
            /\ pc' = "sleep5"
            /\ UNCHANGED outcome
    /\ UNCHANGED <<model_deployment, remote, op, svc, model_state, lastResp,
                   startReqs, stopReqs, polls, remote0>>

\* The loop's test: "started" ends the call (after the settle delay),
\* anything else prints and goes round again.
ServiceStartCheck(s) ==
    /\ pc = "check" /\ op = "start" /\ svc = s
    /\ IF model_state = "started"
       THEN /\ printed' = MsgStarted
            /\ pc' = "done"
            /\ outcome' = "returned"
       ELSE /\ printed' = MsgWaiting
            /\ pc' = "sleep5"
            /\ UNCHANGED outcome
    /\ UNCHANGED <<model_deployment, remote, op, svc, model_state, lastResp,
                   startReqs, stopReqs, polls, remote0>>

\* -------------------------------------------------------- Service.stop

\* A stop that waits for the server like start does.
ServiceStopPolling(s) ==
    /\ pc = "idle"
    /\ op' = "stop"
    /\ svc' = s
    /\ remote0' = remote
    /\ IF model_deployment[s] = None
       THEN /\ pc' = "done"
            /\ outcome' = "raised"
            /\ UNCHANGED <<remote, lastResp, stopReqs>>
       ELSE /\ stopReqs' = 1
            /\ \/ /\ \E r \in RemoteStates : StateChangeAnswered(s, "stop", r)
                  /\ pc' = "sleep5"
                  /\ UNCHANGED outcome
               \/ /\ StateChangeRaises(s, "stop")
                  /\ UNCHANGED lastResp
    /\ UNCHANGED <<model_deployment, model_state, startReqs, polls, printed>>

\* self.model_deployment.id is read to build the request: with no model
\* deployment that read raises AttributeError and nothing is sent.
\* Otherwise one "stop" request, whose response is dropped.
ServiceStop(s) ==
    /\ pc = "idle"
    /\ op' = "stop"
    /\ svc' = s
    /\ remote0' = remote
    /\ IF model_deployment[s] = None
       THEN /\ pc' = "done"
            /\ outcome' = "raised"
            /\ UNCHANGED <<remote, lastResp, stopReqs>>
       ELSE /\ stopReqs' = 1
            /\ \/ /\ \E r \in RemoteStates : StateChangeAnswered(s, "stop", r)
                  /\ pc' = "done"
                  /\ outcome' = "returned"
               \/ /\ StateChangeRaises(s, "stop")
                  /\ UNCHANGED lastResp
    /\ UNCHANGED <<model_deployment, model_state, startReqs, polls, printed>>

\* The caller goes on to its next call: the call's bookkeeping is cleared.
NextCall ==
    /\ pc = "done"
    /\ pc' = "idle"
    /\ op' = "none"
    /\ svc' = None
    /\ model_state' = None
    /\ lastResp' = None
    /\ startReqs' = 0
    /\ stopReqs' = 0
    /\ polls' = 0
    /\ printed' = None
    /\ outcome' = "none"
    /\ remote0' = remote
    /\ UNCHANGED <<model_deployment, remote>>

\* ------------------------------------------------------------- ndarrays
\* A numpy array is its shape and its element at every index (indices
\* count from 0).  An INDArray descriptor is ordering, shape and a flat
\* list of the elements.

Val == {0, 1}

RECURSIVE Size(_)
Size(shape) ==
    IF shape = <<>> THEN 1 ELSE Head(shape) * Size(Tail(shape))

RECURSIVE Indices(_)
Indices(shape) ==
    IF shape = <<>> THEN {<<>>}
    ELSE {<<i>> \o r : i \in 0 .. (Head(shape) - 1), r \in Indices(Tail(shape))}

\* Position of index idx in the C-ordered (row-major) flat data.
RECURSIVE Offset(_, _)
Offset(idx, shape) ==
    IF shape = <<>> THEN 0
    ELSE Head(idx) * Size(Tail(shape)) + Offset(Tail(idx), Tail(shape))

\* Index of the k-th element (from 0) when the last axis varies fastest.
RECURSIVE Unravel(_, _)
Unravel(k, shape) ==
    IF shape = <<>> THEN <<>>
    ELSE <<k \div Size(Tail(shape))>>
            \o Unravel(k % Size(Tail(shape)), Tail(shape))

\* Index of the k-th element (from 0) when the first axis varies fastest.
RECURSIVE UnravelFortran(_, _)
UnravelFortran(k, shape) ==
    IF shape = <<>> THEN <<>>
    ELSE <<k % Head(shape)>> \o UnravelFortran(k \div Head(shape), Tail(shape))

\* np_array.reshape(-1).tolist()
Flat(a) == [k \in 1 .. Size(a.shape) |-> a.at[Unravel(k - 1, a.shape)]]

\* np.expand_dims(x, 0)
ExpandDims0(a) ==
    LET shape == <<1>> \o a.shape
    IN  [shape |-> shape, at |-> [idx \in Indices(shape) |-> a.at[Tail(idx)]]]

\* A descriptor whose data is laid out column by column.
IndarrayFortran(a) ==
    [ordering |-> "c",
     shape    |-> a.shape,
     data     |-> [k \in 1 .. Size(a.shape) |->
                      a.at[UnravelFortran(k - 1, a.shape)]]]

\* Service._indarray
Indarray(a) ==
    [ordering |-> "c", shape |-> a.shape, data |-> Flat(a)]

\* np.asarray(o.data).reshape(o.shape) succeeds when the sizes agree...
Reshapable(o) == Len(o.data) = Size(o.shape)

\* ... and then lays the data out in C order.
Reshape(o) ==
    [shape |-> o.shape,
     at    |-> [idx \in Indices(o.shape) |-> o.data[Offset(idx, o.shape) + 1]]]

\* The (N, M) arrays given to predict.
Arrays ==
    UNION { { [shape |-> <<n, m>>, at |-> f] :
                f \in [Indices(<<n, m>>) -> Val] } :
            n \in 1 .. MaxDim, m \in 1 .. MaxDim }

\* A second input of a multi-input model.
OtherInput == [shape |-> <<1, 1>>, at |-> [idx \in Indices(<<1, 1>>) |-> 1]]

\* predict's argument: one array (isinstance(data, list) is false), or a
\* list of arrays.
IsList(data) == data.list

PredictData ==
    {[list |-> FALSE, items |-> <<a>>] : a \in Arrays}
      \cup {[list |-> TRUE, items |-> <<a>>] : a \in Arrays}
      \cup {[list |-> TRUE, items |-> <<a, OtherInput>>] : a \in Arrays}

NoData   == [list |-> FALSE, items |-> <<>>]

\* What a call returns: one array, or a list of arrays.
AnArray(a)   == [kind |-> "array", value |-> <<a>>]
AList(as)    == [kind |-> "list", value |-> as]
NoResult     == [kind |-> "none", value |-> <<>>]

\* Output descriptors the server may answer with, besides echoing the
\* request's inputs: two well-formed ones and one whose data does not fit
\* its shape.
DescRow == [ordering |-> "c", shape |-> <<1, 2>>, data |-> <<0, 1>>]
DescCol == [ordering |-> "c", shape |-> <<2, 1>>, data |-> <<1, 0>>]
DescBad == [ordering |-> "c", shape |-> <<2, 2>>, data |-> <<1, 0>>]

Responses(inputs) ==
    {inputs} \cup
    UNION { [1 .. n -> {DescRow, DescCol, DescBad}] : n \in 0 .. MaxOutputs }

\* ------------------------------------------- Service.predict(_single)

\* The call builds the request's inputs and sends the multipredict
\* request.
PredictSend(o, data) ==
    /\ pPc = "idle"
    /\ pOp' = o
    /\ pData' = data
    /\ pInputs' =
         IF o = "predict"
         THEN IF IsList(data)
              THEN [i \in 1 .. Len(data.items) |-> Indarray(data.items[i])]
              ELSE <<Indarray(data.items[1])>>
         ELSE IF IsList(data)
              THEN [i \in 1 .. Len(data.items) |->
                       Indarray(ExpandDims0(data.items[i]))]
              ELSE <<Indarray(ExpandDims0(data.items[1]))>>
    /\ pPc' = "sent"
    /\ UNCHANGED <<pOutputs, pResult, pOutcome>>

\* What predict makes of the response's outputs (lines 113-117).
PredictResult(outputs) ==
    IF \E i \in 1 .. Len(outputs) : ~Reshapable(outputs[i])
    THEN [outcome |-> "ValueError", result |-> NoResult]
    ELSE LET arrays == [i \in 1 .. Len(outputs) |-> Reshape(outputs[i])]
         IN  IF Len(arrays) = 1
             THEN [outcome |-> "returned",
                   result  |-> AnArray(arrays[1])]
             ELSE [outcome |-> "returned", result |-> AList(arrays)]

\* What predict_single makes of them (lines 144-145).
PredictSingleResult(outputs) ==
    IF Len(outputs) = 0
    THEN [outcome |-> "IndexError", result |-> NoResult]
    ELSE IF ~Reshapable(outputs[1])
    THEN [outcome |-> "ValueError", result |-> NoResult]
    ELSE [outcome |-> "returned", result |-> AnArray(Reshape(outputs[1]))]

\* The response arrives and the call returns what it makes of it.
PredictReceive ==
    /\ pPc = "sent"
    /\ \E outputs \in Responses(pInputs) :
          LET r == IF pOp = "predict" THEN PredictResult(outputs)
                                      ELSE PredictSingleResult(outputs)
          IN  /\ pOutputs' = outputs
              /\ pResult' = r.result
              /\ pOutcome' = r.outcome
    /\ pPc' = "done"
    /\ UNCHANGED <<pOp, pData, pInputs>>

\* skil.api.multipredict fails: the error propagates.
PredictRaises ==
    /\ pPc = "sent"
    /\ pOutcome' = "ApiException"
    /\ pPc' = "done"
    /\ UNCHANGED <<pOp, pData, pInputs, pOutputs, pResult>>

PredictNextCall ==
    /\ pPc = "done"
    /\ pPc' = "idle"
    /\ pOp' = "none"
    /\ pData' = NoData
    /\ pInputs' = <<>>
    /\ pOutputs' = <<>>
    /\ pResult' = NoResult
    /\ pOutcome' = "none"

\* ------------------------------------------------ Service.detect_objects

Paths  == {"temp.jpg", "other.jpg"}
Images == {"img1", "img2"}

ErrNoOpenCV == "OpenCV is not installed."

\* str(threshold), and 'true' if needs_preprocessing else 'false'
Form(threshold, needs_preprocessing) ==
    [threshold |-> threshold,
     needs_preprocessing |-> IF needs_preprocessing THEN "true" ELSE "false"]

NoForm == [threshold |-> None, needs_preprocessing |-> None]

\* cv2.imwrite(temp_path, image), then open(temp_path, 'rb').  imwrite
\* writes the file, or writes nothing and returns False (not looked at),
\* or raises; open raises when the path holds no file.
WriteAndOpen(image, threshold, needs_preprocessing, temp_path) ==
    \/ /\ files' = [files EXCEPT ![temp_path] = image]
       /\ dPc' = "post"
       /\ dForm' = Form(threshold, needs_preprocessing)
       /\ UNCHANGED dOutcome
    \/ /\ files' = files
       /\ IF files[temp_path] = None
          THEN /\ dPc' = "done"
               /\ dOutcome' = "FileNotFoundError"
               /\ UNCHANGED dForm
          ELSE /\ dPc' = "post"
               /\ dForm' = Form(threshold, needs_preprocessing)
               /\ UNCHANGED dOutcome
    \/ /\ files' = files
       /\ dPc' = "done"
       /\ dOutcome' = "cv2.error"
       /\ UNCHANGED dForm

\* A detect_objects that tests for cv2 only after the image is on disk.
DetectBeginLateGuard(image, threshold, needs_preprocessing, temp_path) ==
    /\ dPc = "idle"
    /\ dPath' = temp_path
    /\ files0' = files
    /\ files' = [files EXCEPT ![temp_path] = image]
    /\ IF cv2 = None
       THEN /\ dPc' = "done"
            /\ dOutcome' = ErrNoOpenCV
            /\ UNCHANGED dForm
       ELSE /\ dPc' = "post"
            /\ dForm' = Form(threshold, needs_preprocessing)
            /\ UNCHANGED dOutcome
    /\ UNCHANGED <<cv2, dPosted, dPosts, dResp>>

\* Lines 162-184: the cv2 guard, the write of the temporary file, the
\* opening of it for the upload.
DetectBegin(image, threshold, needs_preprocessing, temp_path) ==
    /\ dPc = "idle"
    /\ dPath' = temp_path
    /\ files0' = files
    /\ IF cv2 = None
       THEN /\ dPc' = "done"
            /\ dOutcome' = ErrNoOpenCV
            /\ UNCHANGED <<files, dForm>>
       ELSE WriteAndOpen(image, threshold, needs_preprocessing, temp_path)
    /\ UNCHANGED <<cv2, dPosted, dPosts, dResp>>

\* Lines 185-197: requests.post returns a response (of any status), or
\* raises and the error leaves detect_objects at once: the with block
\* closes the file, lines 198-199 are not reached.
DetectPost ==
    /\ dPc = "post"
    /\ dPosts' = dPosts + 1
    /\ dPosted' = files[dPath]
    /\ \/ /\ dResp' \in {"json", "notjson"}
          /\ dPc' = "cleanup"
          /\ UNCHANGED dOutcome
       \/ /\ dPc' = "done"
          /\ dOutcome' = "ConnectionError"
          /\ UNCHANGED dResp
    /\ UNCHANGED <<cv2, files, dPath, dForm, files0>>

\* Lines 198-201: remove the file if it is there, then parse the body.
DetectCleanup ==
    /\ dPc = "cleanup"
    /\ files' = IF files[dPath] # None THEN [files EXCEPT ![dPath] = None]
                ELSE files
    /\ dOutcome' = IF dResp = "json" THEN "returned" ELSE "ValueError"
    /\ dPc' = "done"
    /\ UNCHANGED <<cv2, dPath, dForm, dPosted, dPosts, dResp, files0>>

DetectNextCall ==
    /\ dPc = "done"
    /\ dPc' = "idle"
    /\ dPath' = None
    /\ dForm' = NoForm
    /\ dPosted' = None
    /\ dPosts' = 0
    /\ dResp' = None
    /\ dOutcome' = "none"
    /\ files0' = files
    /\ UNCHANGED <<cv2, files>>

\* --------------------------------------------------------------- Pipeline

\* Values that travel through a pipeline: inputs, what the transform
\* stage answers, what the model stage answers.
PipeInputs  == {"x1", "x2"}
Transformed == {"t1", "t2"}
Predicted   == {"y1", "y2"}

ErrNoName    == "AttributeError: name"
ErrNoDeploy  == "AttributeError: 'NoneType' object has no attribute 'deploy'"
ErrDeploy    == "DeployError"
ErrTransform == "TransformError"
ErrModel     == "ModelError"

NoPipeline == [built |-> FALSE, model_service |-> None,
               transform_service |-> None]

\* One call on a stage: which service, which method, the argument, and
\* whether it returned (ok) with which value, or raised which error.
Call(s, method, arg, ok, val) ==
    [svc |-> s, method |-> method, arg |-> arg, ok |-> ok, val |-> val]

\* Pipeline.__init__(deployment, model, transform=None, ...).
\* Service.__init__ is called as (self, model.skil, deployment, None), so
\* self.model is model.skil and line 29 reads model.skil.name; the Skil
\* class is not part of these sources, both outcomes of that read are
\* kept.  Then model.deploy(...) and transform.deploy(...), in that order,
\* each returning a Service or raising.
PipelineInit(transform) ==
    /\ qPc = "idle" /\ ~pipe.built
    /\ qOp' = "init"
    /\ qData' = transform
    /\ qPc' = "done"
    /\ qResult' = None
    /\ \/ /\ qCalls' = <<>>
          /\ qOutcome' = ErrNoName
          /\ UNCHANGED pipe
       \/ /\ qCalls' = <<Call("model", "deploy", None, FALSE, ErrDeploy)>>
          /\ qOutcome' = ErrDeploy
          /\ UNCHANGED pipe
       \/ /\ transform = None
          /\ qCalls' = <<Call("model", "deploy", None, TRUE, "model")>>
          /\ qOutcome' = ErrNoDeploy
          /\ UNCHANGED pipe
       \/ /\ transform # None
          /\ \/ /\ qCalls' = <<Call("model", "deploy", None, TRUE, "model"),
                               Call("transform", "deploy", None, FALSE,
                                    ErrDeploy)>>
                /\ qOutcome' = ErrDeploy
                /\ UNCHANGED pipe
             \/ /\ qCalls' = <<Call("model", "deploy", None, TRUE, "model"),
                               Call("transform", "deploy", None, TRUE,
                                    "transform")>>
                /\ qOutcome' = "returned"
                /\ pipe' = [built |-> TRUE, model_service |-> "model",
                            transform_service |-> "transform"]

\* The method of the transform stage that each Pipeline method uses.
TransformMethod(method) ==
    IF method = "predict" THEN "predict" ELSE "predict_single"

\* Lines 416-417, 429-430, 449-450: with a transform stage, its result
\* replaces data (or its error leaves the method); without one, data goes
\* on as it is.
PipelineTransform(method, data) ==
    /\ qPc = "idle" /\ pipe.built
    /\ qOp' = method
    /\ qData' = data
    /\ IF pipe.transform_service # None
       THEN \/ \E t \in Transformed :
                 /\ qCalls' = <<Call(pipe.transform_service,
                                     TransformMethod(method), data, TRUE, t)>>
                 /\ qPc' = "model"
                 /\ UNCHANGED <<qOutcome, qResult>>
            \/ /\ qCalls' = <<Call(pipe.transform_service,
                                   TransformMethod(method), data, FALSE,
                                   ErrTransform)>>
               /\ qPc' = "done"
               /\ qOutcome' = ErrTransform
               /\ UNCHANGED qResult
       ELSE /\ qCalls' = <<>>
            /\ qPc' = "model"
            /\ UNCHANGED <<qOutcome, qResult>>
    /\ UNCHANGED pipe

\* What the model stage is given.
ModelArg == IF qCalls = <<>> THEN qData ELSE qCalls[Len(qCalls)].val

\* A model stage that is given the caller's data, transformed or not.
PipelineModelUntransformed ==
    /\ qPc = "model"
    /\ \/ \E y \in Predicted :
            /\ qCalls' = Append(qCalls,
                                Call(pipe.model_service, qOp, qData, TRUE, y))
            /\ qOutcome' = "returned"
            /\ qResult' = y
       \/ /\ qCalls' = Append(qCalls, Call(pipe.model_service, qOp, qData,
                                           FALSE, ErrModel))
          /\ qOutcome' = ErrModel
          /\ UNCHANGED qResult
    /\ qPc' = "done"
    /\ UNCHANGED <<pipe, qOp, qData>>

\* Lines 418, 431, 451: the model stage's method of the same name, whose
\* result (or error) is the Pipeline method's.
PipelineModel ==
    /\ qPc = "model"
    /\ \/ \E y \in Predicted :
            /\ qCalls' = Append(qCalls,
                                Call(pipe.model_service, qOp, ModelArg, TRUE, y))
            /\ qOutcome' = "returned"
            /\ qResult' = y
       \/ /\ qCalls' = Append(qCalls, Call(pipe.model_service, qOp, ModelArg,
                                           FALSE, ErrModel))
          /\ qOutcome' = ErrModel
          /\ UNCHANGED qResult
    /\ qPc' = "done"
    /\ UNCHANGED <<pipe, qOp, qData>>

PipelineNextCall ==
    /\ qPc = "done"
    /\ qPc' = "idle"
    /\ qOp' = "none"
    /\ qData' = None
    /\ qCalls' = <<>>
    /\ qOutcome' = "none"
    /\ qResult' = None
    /\ UNCHANGED pipe

\* ------------------------------------------- Pipeline.start / Pipeline.stop
\* Each is two statements: the method of the model service, then the same
\* method of the transform service.  The second statement is reached when
\* the first has returned; an error raised by either leaves the Pipeline
\* method at once.

\* A start that begins with the transform service.
StartFirstTransform == pipe.transform_service

StartFirst  == pipe.model_service

StartSecond == pipe.transform_service

StopFirst   == pipe.model_service

StopSecond  == pipe.transform_service

NotEnded == [outcome |-> "none", lastResp |-> None,
             startReqs |-> 0, stopReqs |-> 0]

\* How the Service call now in progress ended.
Ended == [outcome |-> outcome, lastResp |-> lastResp,
          startReqs |-> startReqs, stopReqs |-> stopReqs]

\* Pipeline.start(): self.model_service.start() begins.
PipelineStart ==
    /\ kPc = "idle" /\ qPc = "idle" /\ pipe.built
    /\ ServiceStart(StartFirst)
    /\ kOp' = "start"
    /\ kPc' = "first"
    /\ kRemote0' = remote
    /\ UNCHANGED <<kEnded, kOutcome>>

\* Pipeline.stop(): self.model_service.stop() begins.
PipelineStop ==
    /\ kPc = "idle" /\ qPc = "idle" /\ pipe.built
    /\ ServiceStop(StopFirst)
    /\ kOp' = "stop"
    /\ kPc' = "first"
    /\ kRemote0' = remote
    /\ UNCHANGED <<kEnded, kOutcome>>

\* The statement in progress returns: after the first the Pipeline method
\* goes on to the second, after the second it returns.
PipelineStageReturns ==
    /\ kPc \in {"first", "second"}
    /\ pc = "done" /\ outcome = "returned"
    /\ kEnded' = [kEnded EXCEPT ![svc] = Ended]
    /\ NextCall
    /\ IF kPc = "first"
       THEN kPc' = "between" /\ UNCHANGED kOutcome
       ELSE kPc' = "done" /\ kOutcome' = "returned"
    /\ UNCHANGED <<kOp, kRemote0>>

\* The statement in progress raises: the error leaves the Pipeline method.
PipelineStageRaises ==
    /\ kPc \in {"first", "second"}
    /\ pc = "done" /\ outcome = "raised"
    /\ kEnded' = [kEnded EXCEPT ![svc] = Ended]
    /\ NextCall
    /\ kPc' = "done"
    /\ kOutcome' = "raised"
    /\ UNCHANGED <<kOp, kRemote0>>

\* The second statement begins: the transform service's start or stop.
PipelineSecondStage ==
    /\ kPc = "between"
    /\ IF kOp = "start" THEN ServiceStart(StartSecond)
                        ELSE ServiceStop(StopSecond)
    /\ kPc' = "second"
    /\ UNCHANGED <<kOp, kEnded, kOutcome, kRemote0>>

PipelineLifeNextCall ==
    /\ kPc = "done"
    /\ kPc' = "idle"
    /\ kOp' = "none"
    /\ kEnded' = [s \in Services |-> NotEnded]
    /\ kOutcome' = "none"
    /\ kRemote0' = remote

\* ------------------------------------------------------- specification

\* Service.__init__: a Service is built around a model deployment or
\* around none; nothing has been asked of the server.
Init ==
    /\ model_deployment \in [Services -> {None, "md"}]
    /\ remote = [s \in Services |-> "stopped"]
    /\ op = "none"
    /\ svc = None
    /\ pc = "idle"
    /\ model_state = None
    /\ lastResp = None
    /\ startReqs = 0
    /\ stopReqs = 0
    /\ polls = 0
    /\ printed = None
    /\ outcome = "none"
    /\ remote0 = [s \in Services |-> "stopped"]
    /\ pOp = "none"
    /\ pPc = "idle"
    /\ pData = NoData
    /\ pInputs = <<>>
    /\ pOutputs = <<>>
    /\ pResult = NoResult
    /\ pOutcome = "none"
    /\ cv2 \in {None, "cv2"}
    /\ files = [p \in Paths |-> None]
    /\ dPc = "idle"
    /\ dPath = None
    /\ dForm = NoForm
    /\ dPosted = None
    /\ dPosts = 0
    /\ dResp = None
    /\ dOutcome = "none"
    /\ files0 = [p \in Paths |-> None]
    /\ pipe = NoPipeline
    /\ qOp = "none"
    /\ qPc = "idle"
    /\ qData = None
    /\ qCalls = <<>>
    /\ qOutcome = "none"
    /\ qResult = None
    /\ kOp = "none"
    /\ kPc = "idle"
    /\ kEnded = [s \in Services |-> NotEnded]
    /\ kOutcome = "none"
    /\ kRemote0 = [s \in Services |-> "stopped"]

\* Calls of start and stop.
Next ==
    \/ \E s \in Services : ServiceStart(s) /\ UNCHANGED <<predVars, detVars, pipeVars, pipeLifeVars>>
    \/ \E s \in Services : ServiceStartPoll(s) /\ UNCHANGED <<predVars, detVars, pipeVars, pipeLifeVars>>
    \/ \E s \in Services : ServiceStartCheck(s) /\ UNCHANGED <<predVars, detVars, pipeVars, pipeLifeVars>>
    \/ \E s \in Services : ServiceStop(s) /\ UNCHANGED <<predVars, detVars, pipeVars, pipeLifeVars>>
    \/ NextCall /\ UNCHANGED <<predVars, detVars, pipeVars, pipeLifeVars>>

\* Calls of predict and predict_single.
PredictNext ==
    \/ /\ pPc = "idle"
       /\ \E o \in {"predict", "predict_single"}, data \in PredictData :
             PredictSend(o, data)
       /\ UNCHANGED <<lifeVars, detVars, pipeVars, pipeLifeVars>>
    \/ PredictReceive /\ UNCHANGED <<lifeVars, detVars, pipeVars, pipeLifeVars>>
    \/ PredictRaises /\ UNCHANGED <<lifeVars, detVars, pipeVars, pipeLifeVars>>
    \/ PredictNextCall /\ UNCHANGED <<lifeVars, detVars, pipeVars, pipeLifeVars>>

PredictSpec == Init /\ [][PredictNext]_vars

\* Calls of detect_objects.
DetectNext ==
    \/ \E image \in Images, threshold \in {"0.5", "0.9"},
          needs_preprocessing \in BOOLEAN, temp_path \in Paths :
          /\ DetectBegin(image, threshold, needs_preprocessing, temp_path)
          /\ UNCHANGED <<lifeVars, predVars, pipeVars, pipeLifeVars>>
    \/ DetectPost /\ UNCHANGED <<lifeVars, predVars, pipeVars, pipeLifeVars>>
    \/ DetectCleanup /\ UNCHANGED <<lifeVars, predVars, pipeVars, pipeLifeVars>>
    \/ DetectNextCall /\ UNCHANGED <<lifeVars, predVars, pipeVars, pipeLifeVars>>

DetectSpec == Init /\ [][DetectNext]_vars

\* Construction of a Pipeline and calls of its predict methods.
PipelineNext ==
    \/ \E transform \in {None, "transform"} :
          PipelineInit(transform) /\ UNCHANGED <<lifeVars, predVars, detVars, pipeLifeVars>>
    \/ \E method \in {"predict", "predict_single", "detect_objects"},
          data \in PipeInputs :
          /\ PipelineTransform(method, data)
          /\ UNCHANGED <<lifeVars, predVars, detVars, pipeLifeVars>>
    \/ PipelineModel /\ UNCHANGED <<lifeVars, predVars, detVars, pipeLifeVars>>
    \/ PipelineNextCall /\ UNCHANGED <<lifeVars, predVars, detVars, pipeLifeVars>>

PipelineSpec == Init /\ [][PipelineNext]_vars

\* Construction of a Pipeline and calls of its start and stop, with the
\* Service calls they make.
PipelineLifeNext ==
    \/ \E transform \in {None, "transform"} :
          /\ PipelineInit(transform)
          /\ UNCHANGED <<lifeVars, predVars, detVars, pipeLifeVars>>
    \/ PipelineNextCall /\ UNCHANGED <<lifeVars, predVars, detVars, pipeLifeVars>>
    \/ PipelineStart /\ UNCHANGED <<predVars, detVars, pipeVars>>
    \/ PipelineStop /\ UNCHANGED <<predVars, detVars, pipeVars>>
    \/ /\ kPc \in {"first", "second"}
       /\ \E s \in Services : ServiceStartPoll(s)
       /\ UNCHANGED <<predVars, detVars, pipeVars, pipeLifeVars>>
    \/ /\ kPc \in {"first", "second"}
       /\ \E s \in Services : ServiceStartCheck(s)
       /\ UNCHANGED <<predVars, detVars, pipeVars, pipeLifeVars>>
    \/ PipelineStageReturns /\ UNCHANGED <<predVars, detVars, pipeVars>>
    \/ PipelineStageRaises /\ UNCHANGED <<predVars, detVars, pipeVars>>
    \/ PipelineSecondStage /\ UNCHANGED <<predVars, detVars, pipeVars>>
    \/ /\ PipelineLifeNextCall
       /\ UNCHANGED <<lifeVars, predVars, detVars, pipeVars>>

PipelineLifeSpec == Init /\ [][PipelineLifeNext]_vars

Spec == Init /\ [][Next]_vars

\* The calling thread keeps running: a sleep ends, a request is answered
\* or fails, the test after it is made.
FairSpec ==
    /\ Init /\ [][Next]_vars
    /\ WF_vars(\E s \in Services :
                  ServiceStartPoll(s) /\ UNCHANGED <<predVars, detVars, pipeVars, pipeLifeVars>>)
    /\ WF_vars(\E s \in Services :
                  ServiceStartCheck(s) /\ UNCHANGED <<predVars, detVars, pipeVars, pipeLifeVars>>)

\* ------------------------------------------------------ lifecycle claims

StartOn(s)  == op = "start" /\ svc = s
Deployed(s) == model_deployment[s] # None

\* C1: start() on a Service with no model deployment prints the diagnostic
\* and returns: it does not raise, sends no state-change request, never
\* enters the poll loop and leaves the server's state as it was.
C1_StartWithoutDeployment ==
    \A s \in Services :
        (StartOn(s) /\ ~Deployed(s)) =>
            /\ pc = "done"
            /\ outcome = "returned"
            /\ printed = MsgNoModel
            /\ startReqs = 0 /\ stopReqs = 0 /\ polls = 0
            /\ lastResp = None /\ model_state = None
            /\ remote = remote0

C1_Witness ==
    \E s \in Services : StartOn(s) /\ ~Deployed(s) /\ pc = "done"

\* C2: start() on a deployed Service sends a "start" request first and
\* polls after it; when it has returned, the most recent response it
\* received (a poll's) reported "started", and nothing more is sent.
C2_StartState ==
    \A s \in Services :
        (StartOn(s) /\ Deployed(s)) =>
            /\ startReqs >= 1 /\ stopReqs = 0
            /\ startReqs = Min(polls + 1, MaxPolls + 1)
            /\ outcome = "returned" =>
                  /\ pc = "done"
                  /\ polls >= 1
                  /\ lastResp = "started"
                  /\ model_state = "started"
                  /\ remote[s] = "started"
                  /\ printed = MsgStarted

C2_NothingAfterReturn ==
    (op = "start" /\ outcome = "returned") =>
        (remote' = remote /\ startReqs' \in {startReqs, 0}
                          /\ polls' \in {polls, 0})

\* C2: both parts: the state of every start() call on a deployed Service,
\* and no request after the call has returned.
C2_StartReturnsOnlyStarted ==
    []C2_StartState /\ [][C2_NothingAfterReturn]_vars

C2_Witness ==
    \E s \in Services :
        /\ StartOn(s) /\ Deployed(s) /\ outcome = "returned"
        /\ polls >= 2

\* C3: start() on a deployed Service has no timeout and no retry limit.
\* A poll answered "started" is followed by the return; a poll answered
\* anything else is followed by another sleep and another poll, whatever
\* the number of polls so far; and the call returns from nowhere but the
\* test that saw "started".
C3_StartedLeadsToReturn ==
    \A s \in Services :
        (StartOn(s) /\ pc = "check" /\ model_state = "started")
            ~> (StartOn(s) /\ outcome = "returned")

C3_NotStartedPollsAgain ==
    \A s \in Services :
        /\ (StartOn(s) /\ pc = "check" /\ model_state # "started")
              ~> (StartOn(s) /\ pc = "sleep5")
        /\ (StartOn(s) /\ pc = "sleep5")
              ~> (StartOn(s) /\ pc \in {"check", "done"}
                             /\ startReqs >= 2)

C3_ReturnOnlyFromStarted ==
    \A s \in Services :
        (StartOn(s) /\ Deployed(s) /\ pc # "done" /\ pc' = "done"
                    /\ outcome' = "returned")
            => (pc = "check" /\ model_state = "started")

\* C3: the three parts together: "started" leads to the return, any other
\* answer leads to another poll without limit, and there is no other way
\* to return.
C3_StartPollsUntilStarted ==
    /\ C3_StartedLeadsToReturn
    /\ C3_NotStartedPollsAgain
    /\ [][C3_ReturnOnlyFromStarted]_vars

C3_Witness ==
    \E s \in Services :
        /\ StartOn(s) /\ Deployed(s) /\ pc = "check"
        /\ polls = MaxPolls /\ model_state = "starting"

\* C4 as claimed: every call of stop() sends exactly one "stop" request
\* and ends without polling.
C4_EveryStopSendsOne ==
    (op = "stop" /\ pc # "idle") =>
        (pc = "done" /\ stopReqs = 1 /\ startReqs = 0 /\ polls = 0)

\* C4, amended: stop() on a Service with a model deployment sends exactly
\* one "stop" request and ends (it returns, or the request's error
\* propagates) without polling or reading the resulting state; with no
\* model deployment it raises before anything is sent.
C4_StopSendsOneWhenDeployed ==
    \A s \in Services :
        (op = "stop" /\ svc = s) =>
            /\ pc = "done"
            /\ startReqs = 0 /\ polls = 0 /\ model_state = None
            /\ IF Deployed(s)
               THEN /\ stopReqs = 1
                    /\ outcome = "returned" => lastResp = "stopped"
               ELSE /\ stopReqs = 0
                    /\ outcome = "raised"
                    /\ remote = remote0

C4_Witness ==
    \E s \in Services :
        /\ op = "stop" /\ svc = s /\ Deployed(s)
        /\ pc = "done" /\ outcome = "returned" /\ stopReqs = 1

\* -------------------------------------------------------- predict claims

PredictReturned == pPc = "done" /\ pOutcome = "returned"

\* The arrays the response's descriptors stand for, in response order.
OutputArrays ==
    [i \in 1 .. Len(pOutputs) |->
        IF Reshapable(pOutputs[i]) THEN Reshape(pOutputs[i])
        ELSE [shape |-> <<>>, at |-> <<>>]]

\* C7: for predict and for predict_single, a response with exactly one
\* output descriptor gives a single array, and a response with more than
\* one gives a list with one array per descriptor, in response order.
C7_SingleOrList ==
    PredictReturned =>
        /\ Len(pOutputs) = 1 => pResult = AnArray(OutputArrays[1])
        /\ Len(pOutputs) > 1 => pResult = AList(OutputArrays)

\* The same of predict alone, which the code does satisfy.
C7_PredictSingleOrList ==
    (PredictReturned /\ pOp = "predict") =>
        /\ Len(pOutputs) = 1 => pResult = AnArray(OutputArrays[1])
        /\ Len(pOutputs) > 1 => pResult = AList(OutputArrays)

\* predict_single with several outputs returns the first array alone.
C7_PredictSingleDropsOutputs ==
    /\ PredictReturned /\ pOp = "predict_single"
    /\ Len(pOutputs) > 1
    /\ pResult = AnArray(OutputArrays[1])

\* C8: an (N, M) array given to predict goes out as a descriptor with
\* ordering 'c', shape [N, M] and its elements row by row; when the
\* response carries a descriptor of the same shape and data, predict
\* returns an array of the same shape with the same value at every index.
C8_Descriptor ==
    (pOp = "predict" /\ pPc # "idle" /\ ~IsList(pData)) =>
        LET a == pData.items[1]
            d == pInputs[1]
            n == a.shape[1]
            m == a.shape[2]
        IN  /\ Len(pInputs) = 1
            /\ d.ordering = "c"
            /\ d.shape = <<n, m>>
            /\ Len(d.data) = n * m
            /\ \A i \in 0 .. n - 1, j \in 0 .. m - 1 :
                   d.data[i * m + j + 1] = a.at[<<i, j>>]

C8_RoundTrip ==
    (PredictReturned /\ pOp = "predict" /\ ~IsList(pData)
        /\ pOutputs = pInputs) =>
        LET a == pData.items[1]
            b == pResult.value[1]
        IN  /\ pResult.kind = "array"
            /\ b.shape = a.shape
            /\ \A idx \in Indices(a.shape) : b.at[idx] = a.at[idx]

\* C8: the descriptor _indarray builds and the round trip through predict.
C8_MarshalRoundTrip == C8_Descriptor /\ C8_RoundTrip

C8_Witness ==
    /\ PredictReturned /\ pOp = "predict" /\ ~IsList(pData)
    /\ pOutputs = pInputs
    /\ pData.items[1].shape = <<2, 2>>
    /\ pData.items[1].at[<<0, 1>>] # pData.items[1].at[<<1, 0>>]
    /\ pResult = AnArray(pData.items[1])

\* --------------------------------------------------------- detect claims

\* C5: when a detect_objects call has ended, however the upload went,
\* no file is left at temp_path.
C5_TempFileRemoved ==
    dPc = "done" => files[dPath] = None

\* The call that leaves it: the upload raised.
C5_LeftBehind ==
    dPc = "done" /\ dOutcome = "ConnectionError" /\ files[dPath] # None

\* C10: without cv2, detect_objects raises before it writes the temporary
\* file and before it sends anything: the disk is as it was and no upload
\* was issued.
C10_FailsFastWithoutCv2 ==
    (dPc # "idle" /\ cv2 = None) =>
        /\ dPc = "done"
        /\ dOutcome = ErrNoOpenCV
        /\ files = files0
        /\ dPosts = 0 /\ dPosted = None /\ dResp = None

C10_Witness ==
    dPc = "done" /\ cv2 = None /\ dOutcome = ErrNoOpenCV

\* ------------------------------------------------------- pipeline claims

\* C6: predict on a Pipeline with a transform stage calls the transform
\* service's predict on the data first and the model service's predict on
\* the transform's result second, and returns what that second call
\* returns; when the transform stage raises, its error is the call's and
\* the model service is not called.
C6_PredictChains ==
    (qOp = "predict" /\ qPc = "done" /\ pipe.transform_service # None) =>
        /\ Len(qCalls) >= 1
        /\ qCalls[1].svc = pipe.transform_service
        /\ qCalls[1].method = "predict"
        /\ qCalls[1].arg = qData
        /\ IF qCalls[1].ok
           THEN /\ Len(qCalls) = 2
                /\ qCalls[2].svc = pipe.model_service
                /\ qCalls[2].method = "predict"
                /\ qCalls[2].arg = qCalls[1].val
                /\ IF qCalls[2].ok
                   THEN qOutcome = "returned" /\ qResult = qCalls[2].val
                   ELSE qOutcome = qCalls[2].val
           ELSE /\ Len(qCalls) = 1
                /\ qOutcome = qCalls[1].val
                /\ qResult = None

C6_Witness ==
    /\ qOp = "predict" /\ qPc = "done" /\ pipe.transform_service # None
    /\ Len(qCalls) = 2 /\ qCalls[1].ok /\ qCalls[2].ok
    /\ qOutcome = "returned"

\* C9: a Pipeline built with transform=None is built, and its predict and
\* predict_single give the input to the model service with no call of a
\* transform service.
C9_TransformOptional ==
    /\ (qOp = "init" /\ qPc = "done" /\ qData = None
           /\ qOutcome \notin {ErrNoName, ErrDeploy}) =>
          (pipe.built /\ qOutcome = "returned")
    /\ (qOp \in {"predict", "predict_single"} /\ qPc = "done"
           /\ pipe.transform_service = None) =>
          (Len(qCalls) = 1 /\ qCalls[1].svc = pipe.model_service
                           /\ qCalls[1].arg = qData)

\* What the constructor does with transform=None once the model is
\* deployed.
C9_NoneHasNoDeploy ==
    /\ qOp = "init" /\ qPc = "done" /\ qData = None
    /\ qOutcome = ErrNoDeploy /\ ~pipe.built

\* --------------------------------------------- Pipeline start/stop claims

\* The service has been sent a "start" (a "stop") request in the Pipeline
\* call in progress: by its call that has ended, or by the one running.
SentStart(s) ==
    \/ kEnded[s].startReqs >= 1
    \/ svc = s /\ op = "start" /\ startReqs >= 1

SentStop(s) ==
    \/ kEnded[s].stopReqs >= 1
    \/ svc = s /\ op = "stop" /\ stopReqs >= 1

\* Nothing reaches the transform service while the first statement runs.
TransformUntouchedInFirst ==
    (kPc \in {"first", "between"} /\ pipe.built) =>
        /\ remote[pipe.transform_service] = kRemote0[pipe.transform_service]
        /\ ~SentStart(pipe.transform_service)
        /\ ~SentStop(pipe.transform_service)

\* Pipeline.stop(): the transform service is sent its "stop" request only
\* after the model service was sent its own.
StopInSequence ==
    (kOp = "stop" /\ SentStop(pipe.transform_service)) =>
        /\ kEnded[pipe.model_service].outcome = "returned"
        /\ kEnded[pipe.model_service].stopReqs = 1

\* C11 as claimed: Pipeline.start() sends the transform service no "start"
\* request until the model service's start() has returned, that is, until
\* the model service was observed "started"; Pipeline.stop() sends the
\* model service's "stop" request before the transform service's.
C11_TransformAfterModelStarted ==
    /\ TransformUntouchedInFirst
    /\ StopInSequence
    /\ (kOp = "start" /\ SentStart(pipe.transform_service)) =>
          /\ kEnded[pipe.model_service].outcome = "returned"
          /\ kEnded[pipe.model_service].lastResp = "started"

\* C11, amended: the transform service is sent no "start" request until
\* the model service's start() has returned; a model service that has a
\* model deployment was then observed "started", one that has none
\* returned without sending anything.  The order of stop() is as claimed.
C11_TransformAfterModelReturned ==
    /\ TransformUntouchedInFirst
    /\ StopInSequence
    /\ (kOp = "start" /\ SentStart(pipe.transform_service)) =>
          /\ kEnded[pipe.model_service].outcome = "returned"
          /\ IF Deployed(pipe.model_service)
             THEN /\ kEnded[pipe.model_service].lastResp = "started"
                  /\ kEnded[pipe.model_service].startReqs >= 2
             ELSE /\ kEnded[pipe.model_service].lastResp = None
                  /\ kEnded[pipe.model_service].startReqs = 0

C11_Witness ==
    /\ kOp = "start" /\ kPc = "second"
    /\ SentStart(pipe.transform_service)
    /\ Deployed(pipe.model_service)
    /\ kEnded[pipe.model_service].startReqs >= 3
    /\ kEnded[pipe.model_service].lastResp = "started"

\* The transform service's "stop" request after the model service's.
C11_StopWitness ==
    /\ kOp = "stop" /\ kPc = "second"
    /\ svc = pipe.transform_service /\ stopReqs = 1
    /\ kEnded[pipe.model_service].stopReqs = 1

====
